---- MODULE Spec2Model ----
(***************************************************************************)
(* Conversation store of romnexity (src/src/hooks/useChatHistory.ts) and   *)
(* the page handlers that drive it (src/unnamed/part_001, page.tsx).       *)
(*                                                                         *)
(* React state: setChatState(updater) only queues the updater; the queued  *)
(* updaters run, in call order, when the component next renders.           *)
(* Everything a handler does outside an updater (new Date() and the id of  *)
(* createNewChat, localStorage.removeItem of clearAllChats) happens at     *)
(* call time; everything inside an updater (saveChats, the ids and dates   *)
(* of addMessageToChat) happens at render time.  A click handler's         *)
(* updates are rendered before the next event is handled (React flushes a  *)
(* discrete event synchronously); the updates made after an await          *)
(* (addMessageToChat in handleSearch, the load of the mount effect) are    *)
(* batched and stay queued until the next render.                          *)
(*                                                                         *)
(* The file holds two versions of the hook; they differ in the titles      *)
(* only.  `variant` says which one runs.                                   *)
(*                                                                         *)
(* Durable storage is modelled as working (setItem/removeItem succeed);    *)
(* the clock (Date.now) never goes backwards; ids (time + random suffix)   *)
(* are modelled as fresh.                                                  *)
(***************************************************************************)
EXTENDS Integers, Sequences, FiniteSets, TLC

VARIABLES
    chats,          \* chatState.chats of the last render / of the render in progress
    currentChatId,  \* chatState.currentChatId
    storage,        \* localStorage[STORAGE_KEY]: NoItem or the saved JSON text
    queue,          \* state updates queued by setChatState, in call order
    rendering,      \* TRUE while a render is working through the queue
    inflight,       \* searches awaiting their fetch: [query, chatId, first]
    now,            \* Date.now()
    nextChatId,     \* number of chat ids generated so far
    nextMsgId,      \* number of message ids generated so far
    calls,          \* number of addMessageToChat calls made so far
    variant,        \* 1: lines 1-243 of the hook, 2: lines 245-426
    last,           \* history: the update the previous step applied, and the state before it
    req,            \* the request the search route (POST /api/search) is handling
    page            \* HomePage's own state: searchState and currentQuery

vars == <<chats, currentChatId, storage, queue, rendering, inflight, now,
          nextChatId, nextMsgId, calls, variant, last, req, page>>

\* the variables of the conversation store and its page
storeVars == <<chats, currentChatId, storage, queue, rendering, inflight, now,
               nextChatId, nextMsgId, calls, variant, last, page>>

----------------------------------------------------------------------------
(* Bounds of the model *)

MaxChats == 2
MaxCalls == 2
MaxQueue == 2
MaxTicks == 1
ClockStart == 999

(* Program constants *)

Null == 0
TitleLimit == 50

\* the queries the user submits, and the answer the search API gives to each
Queries == {"what is tla", "go"}

AnswerTo(query) ==
    IF query = "what is tla" THEN "The Temporal Logic of actions" ELSE "it depends"

Min(a, b) == IF a < b THEN a ELSE b

----------------------------------------------------------------------------
(* Strings *)

\* String.prototype.slice(0, n) / substring(0, n) for 0 <= n
Slice(s, n) == SubSeq(s, 1, Min(n, Len(s)))

\* query.slice(0, 50) + (query.length > 50 ? '...' : '')
SliceTitle(query) ==
    Slice(query, TitleLimit) \o (IF Len(query) > TitleLimit THEN "..." ELSE "")

CharAt(s, i) == SubSeq(s, i, i)

\* does the one-character string c occur in the string set
InChars(c, set) == \E i \in 1..Len(set) : CharAt(set, i) = c

UpperChars == "ABCDEFGHIJKLMNOPQRSTUVWXYZ"
LowerChars == "abcdefghijklmnopqrstuvwxyz"
DigitChars == "0123456789_"

IsUpper(c) == InChars(c, UpperChars)
IsLower(c) == InChars(c, LowerChars)
\* \w of a regular expression
IsWordChar(c) == IsUpper(c) \/ IsLower(c) \/ InChars(c, DigitChars)
\* \s of a regular expression (the model's texts hold no other white space)
IsSpace(c) == c = " "

\* the character of `to` at the place c has in `from`; c when it has none
Translate(c, from, to) ==
    IF InChars(c, from)
    THEN CharAt(to, CHOOSE i \in 1..Len(from) : CharAt(from, i) = c)
    ELSE c

LowerOf(c) == Translate(c, UpperChars, LowerChars)
UpperOf(c) == Translate(c, LowerChars, UpperChars)

\* String.prototype.toLowerCase
RECURSIVE toLowerCase(_)
toLowerCase(s) ==
    IF Len(s) = 0 THEN ""
    ELSE LowerOf(CharAt(s, 1)) \o toLowerCase(SubSeq(s, 2, Len(s)))

\* String.prototype.startsWith
startsWith(s, prefix) == Len(s) >= Len(prefix) /\ SubSeq(s, 1, Len(prefix)) = prefix

\* String.prototype.includes
includes(s, part) ==
    \E i \in 1..(Len(s) - Len(part) + 1) : SubSeq(s, i, i + Len(part) - 1) = part

\* s.split(' '): the pieces between the spaces, empty ones included
RECURSIVE SplitFrom(_, _, _)
SplitFrom(s, start, i) ==
    IF i > Len(s) THEN <<SubSeq(s, start, Len(s))>>
    ELSE IF CharAt(s, i) = " "
         THEN <<SubSeq(s, start, i - 1)>> \o SplitFrom(s, i + 1, i + 1)
         ELSE SplitFrom(s, start, i + 1)

split(s) == SplitFrom(s, 1, 1)

\* words.join(' ')
RECURSIVE join(_)
join(words) ==
    IF Len(words) = 0 THEN ""
    ELSE IF Len(words) = 1 THEN words[1]
    ELSE words[1] \o " " \o join(Tail(words))

QueryStopWords ==
    {"what", "how", "why", "when", "where", "the", "and", "but", "for", "with", "about"}

\* .filter(word => word.length > 3 && !stopWords.includes(word))
RECURSIVE filterWords(_)
filterWords(words) ==
    IF Len(words) = 0 THEN <<>>
    ELSE IF Len(Head(words)) > 3 /\ Head(words) \notin QueryStopWords
         THEN <<Head(words)>> \o filterWords(Tail(words))
         ELSE filterWords(Tail(words))

\* the end of the run of [a-z] that starts at i (i - 1 when there is none)
RECURSIVE LowerRunEnd(_, _)
LowerRunEnd(s, i) ==
    IF i <= Len(s) /\ IsLower(CharAt(s, i)) THEN LowerRunEnd(s, i + 1) ELSE i - 1

\* the end of the run of \s that starts at i (i - 1 when there is none)
RECURSIVE SpaceRunEnd(_, _)
SpaceRunEnd(s, i) ==
    IF i <= Len(s) /\ IsSpace(CharAt(s, i)) THEN SpaceRunEnd(s, i + 1) ELSE i - 1

\* [A-Z][a-z]+ from i, ended by a word boundary: the end of the word, or 0.
\* The greedy [a-z]+ cannot give letters back: \b never holds between two letters.
WordEndAt(s, i, e) ==
    IF e >= i + 1 /\ (e = Len(s) \/ ~IsWordChar(CharAt(s, e + 1))) THEN e ELSE 0

CapWordEnd(s, i) ==
    IF i <= Len(s) /\ IsUpper(CharAt(s, i))
    THEN WordEndAt(s, i, LowerRunEnd(s, i + 1))
    ELSE 0

\* (?:\s+[A-Z][a-z]+)* after a word that ends at e: the end of the whole match
RECURSIVE CapChainEnd(_, _)
ChainStep(s, e, w) == IF w > 0 THEN CapChainEnd(s, w) ELSE e
NextCapWord(s, e, sp) == IF sp >= e + 1 THEN CapWordEnd(s, sp + 1) ELSE 0
CapChainEnd(s, e) == ChainStep(s, e, NextCapWord(s, e, SpaceRunEnd(s, e + 1)))

\* /\b[A-Z][a-z]+(?:\s+[A-Z][a-z]+)*\b/ matched at i: the end of the match, or 0
ChainFrom(s, e) == IF e > 0 THEN CapChainEnd(s, e) ELSE 0

ProperNounEnd(s, i) ==
    IF i = 1 \/ ~IsWordChar(CharAt(s, i - 1)) THEN ChainFrom(s, CapWordEnd(s, i)) ELSE 0

\* the first match of the expression at or after i, "" when there is none
RECURSIVE MatchFrom(_, _)
MatchOr(s, i, e) == IF e > 0 THEN SubSeq(s, i, e) ELSE MatchFrom(s, i + 1)
MatchFrom(s, i) == IF i > Len(s) THEN "" ELSE MatchOr(s, i, ProperNounEnd(s, i))

\* (answer.match(/.../g) || [])[0]: the first proper noun, "" when there is none
firstProperNoun(answer) == MatchFrom(answer, 1)

\* query.length > 50 ? query.substring(0, 47) + '...' : query
truncateQuery(query) ==
    IF Len(query) > TitleLimit THEN Slice(query, TitleLimit - 3) \o "..." ELSE query

TitleCut == 60

\* queryWords.some(word => word.includes(part))
some(queryWords, part) == \E i \in 1..Len(queryWords) : includes(queryWords[i], part)

\* mainKeywords.charAt(0).toUpperCase() + mainKeywords.slice(1)
Capitalize(s) == UpperOf(CharAt(s, 1)) \o SubSeq(s, 2, Len(s))

\* branch 1 of generateChatTitle: a proper noun of the answer
TopicTitle(queryWords, mainTopic) ==
    IF some(queryWords, "what") THEN "What is " \o mainTopic \o "?"
    ELSE IF some(queryWords, "how") THEN "How " \o mainTopic \o " works"
    ELSE "About " \o mainTopic

\* branch 2 of generateChatTitle: the first three key words of the query
KeywordTitle(lower, mainKeywords) ==
    IF startsWith(lower, "what") THEN "What is " \o mainKeywords \o "?"
    ELSE IF startsWith(lower, "how") THEN "How to " \o mainKeywords
    ELSE IF startsWith(lower, "why") THEN "Why " \o mainKeywords \o "?"
    ELSE Capitalize(mainKeywords)

\* the three branches of generateChatTitle
ChooseTitle(query, queryWords, mainTopic) ==
    IF mainTopic # "" THEN TopicTitle(queryWords, mainTopic)
    ELSE IF Len(queryWords) > 0
    THEN KeywordTitle(toLowerCase(query),
                      join(SubSeq(queryWords, 1, Min(3, Len(queryWords)))))
    ELSE truncateQuery(query)

\* if (title.length > 60) ...; return title || query.substring(0, 50)
FinishTitle(query, title) ==
    IF Len(title) > TitleCut THEN Slice(title, TitleCut - 3) \o "..."
    ELSE IF title # "" THEN title
    ELSE Slice(query, TitleLimit)

\* the response has an answer that is a text.  A response whose answer is
\* missing has no field answer; one whose answer is not a text holds it in the
\* field nonText, so that answer is a text wherever it is present.
HasTextAnswer(response) == "answer" \in DOMAIN response

\* fault: the catch block returns the query as it is
generateChatTitleUncut(query, response) ==
    IF HasTextAnswer(response)
    THEN FinishTitle(query, ChooseTitle(query, filterWords(split(toLowerCase(query))),
                                        firstProperNoun(response.answer)))
    ELSE query

\* generateChatTitle of the first version of the hook.  responseWords is computed
\* and never used; response.answer.toLowerCase() throws when the answer is not
\* a text, and the catch block returns the truncated query.
generateChatTitle(query, response) ==
    IF HasTextAnswer(response)
    THEN FinishTitle(query, ChooseTitle(query, filterWords(split(toLowerCase(query))),
                                        firstProperNoun(response.answer)))
    ELSE truncateQuery(query)

\* createNewChat called without a first query
NoHint == ""

\* the title createNewChat gives: the first version of the hook writes a
\* placeholder, the second the first 50 characters of the query
CreateTitle(firstQuery) ==
    IF firstQuery = NoHint THEN "New Chat"
    ELSE IF variant = 1 THEN "New Chat..."
    ELSE SliceTitle(firstQuery)

\* generateChatTitle on the searches of the model, computed once
GeneratedTitles ==
    [q \in Queries |-> generateChatTitle(q, [query |-> q, answer |-> AnswerTo(q)])]

\* the title addMessageToChat gives to a chat on its first message
MessageTitle(query, response) ==
    IF variant = 1
    THEN (IF query \in Queries /\ HasTextAnswer(response)
                               /\ response.answer = AnswerTo(query)
          THEN GeneratedTitles[query] ELSE generateChatTitle(query, response))
    ELSE SliceTitle(query)

----------------------------------------------------------------------------
(* JSON.stringify / JSON.parse of the chat collection.  JSON.stringify     *)
(* turns every Date into its toISOString() text; the load turns the texts  *)
(* back into Dates with new Date(text).  The model's instants are below    *)
(* one minute, so the text is 1970-01-01T00:00:SS.mmmZ.                    *)

Digit(d) == SubSeq("0123456789", d + 1, d + 1)

DigitVal(c) == CHOOSE d \in 0..9 : Digit(d) = c

\* Date.prototype.toISOString for an instant t (milliseconds), 0 <= t < 60000
toISOString(t) ==
    "1970-01-01T00:00:"
        \o Digit((t \div 10000) % 10) \o Digit((t \div 1000) % 10)
        \o "."
        \o Digit((t \div 100) % 10) \o Digit((t \div 10) % 10) \o Digit(t % 10)
        \o "Z"

\* the time value of an Invalid Date (NaN)
InvalidDate == 0 - 1

\* a property the stored object does not have
Undefined == "undefined"

\* JSON null: what JSON.stringify writes for an Invalid Date
JsonNull == "null"

\* obj[name], undefined when the stored object has no such property
Field(obj, name) == IF name \in DOMAIN obj THEN obj[name] ELSE Undefined

\* fault: a parse that keeps the seconds and drops the milliseconds
newDateSeconds(text) ==
    LET v(i) == DigitVal(SubSeq(text, i, i))
    IN  v(18) * 10000 + v(19) * 1000

\* new Date(text) for a text toISOString wrote; new Date(undefined) is an
\* Invalid Date, new Date(null) is the epoch
newDate(text) ==
    IF text = Undefined THEN InvalidDate
    ELSE IF text = JsonNull THEN 0
    ELSE LET v(i) == DigitVal(SubSeq(text, i, i))
         IN  v(18) * 10000 + v(19) * 1000 + v(21) * 100 + v(22) * 10 + v(23)

\* toISOString on the instants of the model, computed once
Instants == ClockStart..(ClockStart + MaxTicks)

ISOStrings == [t \in Instants |-> toISOString(t)]

DateToJSON(t) ==
    IF t \in Instants THEN ISOStrings[t]
    ELSE IF t = InvalidDate THEN JsonNull
    ELSE toISOString(t)

StringifyMessage(msg) ==
    [msg EXCEPT !.timestamp = DateToJSON(msg.timestamp)]

StringifyChat(chat) ==
    [chat EXCEPT !.createdAt = DateToJSON(chat.createdAt),
                 !.updatedAt = DateToJSON(chat.updatedAt),
                 !.messages = [i \in DOMAIN chat.messages |->
                                  StringifyMessage(chat.messages[i])]]

\* JSON.stringify(chats)
JSONStringify(cs) == [i \in DOMAIN cs |-> StringifyChat(cs[i])]

\* localStorage.getItem(STORAGE_KEY) of a slot never written or removed
NoItem == [kind |-> "absent"]

\* saveChats: localStorage.setItem(STORAGE_KEY, JSON.stringify(chats))
saveChats(cs) == [kind |-> "text", json |-> JSONStringify(cs)]

\* a storage collaborator that throws on every access (getItem, setItem,
\* removeItem): storage blocked or withdrawn by the browser
Broken == [kind |-> "broken"]

\* the slot after saveChats(cs): the catch of saveChats absorbs a failing setItem
saveChatsTo(slot, cs) == IF slot = Broken THEN slot ELSE saveChats(cs)

\* an exception that left the hook's code uncaught, and the operation it left
Threw(by) == [op |-> "threw", by |-> by]

ReviveMessage(msg) ==
    [msg EXCEPT !.timestamp = newDate(msg.timestamp)]

\* { ...chat, createdAt: new Date(chat.createdAt), updatedAt: ..., messages: ... }
ReviveChat(chat) ==
    [f \in DOMAIN chat \cup {"createdAt", "updatedAt"} |->
        IF f = "createdAt" THEN newDate(Field(chat, "createdAt"))
        ELSE IF f = "updatedAt" THEN newDate(Field(chat, "updatedAt"))
        ELSE IF f = "messages"
             THEN [i \in DOMAIN chat.messages |-> ReviveMessage(chat.messages[i])]
             ELSE chat[f]]

\* the chats the load on mount reads: JSON.parse(savedChats).map(...)
parseChats(saved) == [i \in DOMAIN saved.json |-> ReviveChat(saved.json[i])]

\* a slot holding a text JSON.parse rejects
Unparseable == [kind |-> "unparseable"]

\* a slot holding the JSON text of a value that is no array (an object, a
\* number, a string, null): parsed.map is not a function
NotAList == [kind |-> "value"]

\* does the try block of the load throw: JSON.parse fails, parsed.map is not a
\* function, or chat.messages.map is called on a chat without a message list
LoadThrows(saved) ==
    \/ saved.kind # "text"
    \/ \E i \in DOMAIN saved.json : "messages" \notin DOMAIN saved.json[i]

\* localStorage.getItem is called outside the try block of the effect: when it
\* throws, the exception leaves the effect
MountLast(saved) == IF saved = Broken THEN Threw("mount") ELSE [op |-> "none"]

\* the state updates the mount effect queues: none when the slot is empty or
\* the try block throws (the catch logs and goes on)
MountEffect(saved) ==
    IF saved = NoItem \/ saved = Broken THEN <<>>
    ELSE IF LoadThrows(saved) THEN <<>>
    ELSE <<[op |-> "load", chats |-> parseChats(saved)]>>

----------------------------------------------------------------------------
(* The state updaters of the hook: each maps the previous state            *)
(* [chats, currentChatId, storage] to the next one.                        *)

ChatIds(cs) == {cs[i].id : i \in DOMAIN cs}

\* prev.chats.find(c => c.id === id): is there such a chat
HasChat(cs, id) == \E i \in DOMAIN cs : cs[i].id = id

\* prev.chats.filter(chat => chat.id !== chatId)
RECURSIVE FilterOut(_, _)
FilterOut(cs, chatId) ==
    IF cs = <<>> THEN <<>>
    ELSE IF Head(cs).id # chatId
         THEN <<Head(cs)>> \o FilterOut(Tail(cs), chatId)
         ELSE FilterOut(Tail(cs), chatId)

\* the Chat object createNewChat and the repair of addMessageToChat build
NewChat(id, title, t) ==
    [id |-> id, title |-> title, messages |-> <<>>, createdAt |-> t, updatedAt |-> t]

\* saveChats(updatedChats); return { ...prev, chats: updatedChats, currentChatId }
SaveAndReturn(prev, updatedChats, currentId) ==
    [chats |-> updatedChats, currentChatId |-> currentId,
     storage |-> saveChatsTo(prev.storage, updatedChats)]

\* fault: the new chat is put at the end of the list
createNewChatAtEnd(prev, newChat) ==
    SaveAndReturn(prev, prev.chats \o <<newChat>>, newChat.id)

\* createNewChat's updater; newChat was built when createNewChat was called
createNewChatUpdater(prev, newChat) ==
    SaveAndReturn(prev, <<newChat>> \o prev.chats, newChat.id)

\* fault: only a null pointer is repaired, a stale one is not
NeedsNewChatNullOnly(prev) == prev.currentChatId = Null

\* !currentChatId || !prev.chats.find(c => c.id === currentChatId)
NeedsNewChat(prev) ==
    prev.currentChatId = Null \/ ~HasChat(prev.chats, prev.currentChatId)

\* fault: the new message is put in front of the others
AppendToFront(chat, currentId, newMessage, t, title) ==
    IF chat.id = currentId
    THEN [chat EXCEPT !.messages = <<newMessage>> \o chat.messages,
                      !.updatedAt = t,
                      !.title = IF Len(chat.messages) = 0 THEN title ELSE chat.title]
    ELSE chat

\* fault: the new message replaces the others
AppendToReplacing(chat, currentId, newMessage, t, title) ==
    IF chat.id = currentId
    THEN [chat EXCEPT !.messages = <<newMessage>>,
                      !.updatedAt = t,
                      !.title = IF Len(chat.messages) = 0 THEN title ELSE chat.title]
    ELSE chat
\* fault: every message rewrites the title
AppendToRetitled(chat, currentId, newMessage, t, title) ==
    IF chat.id = currentId
    THEN [chat EXCEPT !.messages = Append(chat.messages, newMessage),
                      !.updatedAt = t,
                      !.title = title]
    ELSE chat
\* fault: the append leaves updatedAt as it was
AppendToNotBumped(chat, currentId, newMessage, t, title) ==
    IF chat.id = currentId
    THEN [chat EXCEPT !.messages = Append(chat.messages, newMessage),
                      !.title = IF Len(chat.messages) = 0 THEN title ELSE chat.title]
    ELSE chat

\* the chat the map of addMessageToChat returns for `chat`
AppendTo(chat, currentId, newMessage, t, title) ==
    IF chat.id = currentId
    THEN [chat EXCEPT !.messages = Append(chat.messages, newMessage),
                      !.updatedAt = t,
                      !.title = IF Len(chat.messages) = 0 THEN title ELSE chat.title]
    ELSE chat

\* the message addMessageToChat builds (call: history, the number of the call)
NewMessage(msgId, query, response, t, call) ==
    [id |-> msgId, query |-> query, response |-> response, timestamp |-> t,
     call |-> call]

\* prev after the repair of a missing current chat
WithCurrentChat(prev, newChat) ==
    IF NeedsNewChat(prev)
    THEN [prev EXCEPT !.chats = <<newChat>> \o prev.chats, !.currentChatId = newChat.id]
    ELSE prev

\* fault: the chat is selected by its position (the head of the list), not its id
MapAppendHead(cs, currentId, newMessage, t, title) ==
    [i \in DOMAIN cs |->
        IF i = 1 THEN [cs[i] EXCEPT !.messages = Append(cs[i].messages, newMessage),
                                    !.updatedAt = t,
                                    !.title = IF Len(cs[i].messages) = 0
                                              THEN title ELSE cs[i].title]
        ELSE cs[i]]

\* prev.chats.map(chat => chat.id === currentChatId ? updatedChat : chat)
MapAppend(cs, currentId, newMessage, t, title) ==
    [i \in DOMAIN cs |-> AppendTo(cs[i], currentId, newMessage, t, title)]

AppendAndSave(prev, newMessage, t, title) ==
    SaveAndReturn(prev, MapAppend(prev.chats, prev.currentChatId, newMessage, t, title),
                  prev.currentChatId)

AddWithTitle(prev, query, response, call, t, newChatId, msgId, title) ==
    AppendAndSave(WithCurrentChat(prev, NewChat(newChatId, title, t)),
                  NewMessage(msgId, query, response, t, call), t, title)

\* addMessageToChat's updater, run at instant t; newChatId and msgId are the ids
\* it generates, call is the number of the addMessageToChat call (history)
addMessageToChatUpdater(prev, query, response, call, t, newChatId, msgId) ==
    AddWithTitle(prev, query, response, call, t, newChatId, msgId,
                 MessageTitle(query, response))

\* fault: an id that is not in the list is ignored
switchToChatIfPresent(prev, chatId) ==
    IF HasChat(prev.chats, chatId) THEN [prev EXCEPT !.currentChatId = chatId] ELSE prev

\* switchToChat's updater
switchToChatUpdater(prev, chatId) == [prev EXCEPT !.currentChatId = chatId]

\* fault: the pointer is left on the deleted chat
NewCurrentChatIdKept(prev, chatId, updatedChats) == prev.currentChatId

\* deleteChat's updater
NewCurrentChatId(prev, chatId, updatedChats) ==
    IF prev.currentChatId = chatId
    THEN (IF Len(updatedChats) > 0 THEN updatedChats[1].id ELSE Null)
    ELSE prev.currentChatId

DeleteAndSave(prev, chatId, updatedChats) ==
    SaveAndReturn(prev, updatedChats, NewCurrentChatId(prev, chatId, updatedChats))

deleteChatUpdater(prev, chatId) == DeleteAndSave(prev, chatId, FilterOut(prev.chats, chatId))
\* fault: clearAllChats empties the list and leaves the pointer
clearAllChatsKeepsPointer(prev) == [prev EXCEPT !.chats = <<>>]

\* the state clearAllChats sets (not an updater function: a plain value)
clearAllChatsState(prev) == [prev EXCEPT !.chats = <<>>, !.currentChatId = Null]

\* the updater of the load on mount: prev => ({ ...prev, chats })
loadUpdater(prev, loaded) == [prev EXCEPT !.chats = loaded]

\* the queued update u applied to prev
ApplyUpdate(prev, u) ==
    CASE u.op = "create" -> createNewChatUpdater(prev, u.chat)
      [] u.op = "add"    -> addMessageToChatUpdater(prev, u.query, u.response, u.call,
                                                    now, nextChatId + 1, nextMsgId + 1)
      [] u.op = "switch" -> switchToChatUpdater(prev, u.id)
      [] u.op = "delete" -> deleteChatUpdater(prev, u.id)
      [] u.op = "clear"  -> clearAllChatsState(prev)
      [] u.op = "load"   -> loadUpdater(prev, u.chats)

----------------------------------------------------------------------------
(* The system: the page's handlers call the hook, renders apply the queue. *)

NoLast == [op |-> "none"]

\* the route handles no request
NoRequest == [pc |-> "idle"]

State == [chats |-> chats, currentChatId |-> currentChatId, storage |-> storage]

\* searchState.error when it is null (the page tests it for truthiness only)
NoError == ""

\* searchState.results when it is null
NoResults == [none |-> TRUE]

\* .slice(0, 5) of the search history
HistoryLimit == 5

\* the state HomePage starts with; failed is history: the query of the search
\* whose error is shown
InitialPage ==
    [isLoading |-> FALSE, error |-> NoError, results |-> NoResults,
     searchHistory |-> <<>>, currentQuery |-> "", failed |-> ""]

\* prev.searchHistory.filter(h => h !== query)
RECURSIVE FilterQuery(_, _)
FilterQuery(history, query) ==
    IF history = <<>> THEN <<>>
    ELSE (IF Head(history) # query THEN <<Head(history)>> ELSE <<>>)
             \o FilterQuery(Tail(history), query)

\* fault: the query is added without removing its earlier entry
searchHistoryUnfiltered(history, query) ==
    SubSeq(<<query>> \o history, 1, Min(HistoryLimit, Len(history) + 1))

\* [query, ...prev.searchHistory.filter(h => h !== query)].slice(0, 5)
searchHistoryUpdate(history, query) ==
    SubSeq(<<query>> \o FilterQuery(history, query), 1,
           Min(HistoryLimit, Len(FilterQuery(history, query)) + 1))

\* handleSearch before the fetch: setCurrentQuery(query) and the first
\* setSearchState
SearchStarted(p, query) ==
    [p EXCEPT !.currentQuery = query, !.isLoading = TRUE, !.error = NoError,
              !.results = NoResults, !.failed = "",
              !.searchHistory = searchHistoryUpdate(p.searchHistory, query)]

\* handleSearch after addMessageToChat, and its finally block
SearchSucceeded(p, data) ==
    [p EXCEPT !.isLoading = FALSE, !.error = NoError, !.results = data,
              !.failed = "", !.currentQuery = ""]

\* the message of the error handleSearch catches
ErrorMessage == "Search failed"

\* handleSearch's catch block, and its finally block
SearchFailed(p, query) ==
    [p EXCEPT !.isLoading = FALSE, !.error = ErrorMessage, !.results = NoResults,
              !.failed = query, !.currentQuery = ""]

\* setSearchState of handleNewChat and handleSwitchToChat
ResetSearch(p) ==
    [p EXCEPT !.isLoading = FALSE, !.error = NoError, !.results = NoResults,
              !.failed = ""]

Init ==
    /\ chats = <<>>
    /\ currentChatId = Null
    /\ storage = NoItem
    /\ queue = MountEffect(NoItem)
    /\ rendering = FALSE
    /\ inflight = {}
    /\ now = ClockStart
    /\ nextChatId = 0
    /\ nextMsgId = 0
    /\ calls = 0
    /\ variant \in {1, 2}
    /\ last = NoLast
    /\ req = NoRequest
    /\ page = InitialPage

\* the component is mounted: an exception thrown by the mount effect unmounts it
Mounted == last # Threw("mount")

\* no render is in progress
Idle == ~rendering /\ Mounted

\* a click handler runs between renders; its updates are rendered before the
\* next event
CanCall == Idle

\* createNewChat(firstQuery): the update it queues, and the id it returns
createNewChat(firstQuery) ==
    [op |-> "create", chat |-> NewChat(nextChatId + 1, CreateTitle(firstQuery), now),
     returned |-> nextChatId + 1]

\* getCurrentChat() has no chat, or one without messages: the next message is
\* the first of its chat
NoMessagesYet ==
    \A i \in DOMAIN chats : chats[i].id = currentChatId => Len(chats[i].messages) = 0

\* getCurrentChat() returning null
NoChat == [none |-> TRUE]

\* getCurrentChat(): the rendered chat with the rendered current id, or null
getCurrentChat ==
    IF currentChatId = Null THEN NoChat
    ELSE IF HasChat(chats, currentChatId)
         THEN chats[CHOOSE i \in DOMAIN chats : chats[i].id = currentChatId]
         ELSE NoChat

\* a search submitted for the chat chatId (history: the code keeps no such record)
Search(query, chatId) == [query |-> query, chatId |-> chatId, first |-> NoMessagesYet]

\* handleSearch(query) up to the await of the fetch; l is what the history
\* variable last records of the step
Submit(query, l) ==
    /\ Idle
    /\ calls + Cardinality(inflight) < MaxCalls
    /\ IF currentChatId = Null
       THEN /\ CanCall
            /\ nextChatId < MaxChats
            /\ queue' = Append(queue, createNewChat(query))
            /\ nextChatId' = nextChatId + 1
            /\ Search(query, createNewChat(query).returned) \notin inflight
            /\ inflight' = inflight \cup {Search(query, createNewChat(query).returned)}
            /\ rendering' = TRUE
       ELSE /\ Search(query, currentChatId) \notin inflight
            /\ inflight' = inflight \cup {Search(query, currentChatId)}
            /\ UNCHANGED <<queue, nextChatId, rendering>>
    /\ page' = SearchStarted(page, query)
    /\ last' = l
    /\ UNCHANGED <<chats, currentChatId, storage, now, nextMsgId, calls, variant, req>>

\* handleSearch(query), called by the search input, a suggestion or an entry of
\* the search history
HandleSearch(query) == Submit(query, NoLast)

\* handleSearch after the fetch answered ok with the body data:
\* addMessageToChat(query, data)
FetchData(search, data) ==
    /\ Idle
    /\ Len(queue) < MaxQueue
    /\ search \in inflight
    /\ queue' = Append(queue, [op |-> "add", query |-> search.query,
                               response |-> data,
                               call |-> calls + 1, target |-> search.chatId,
                               first |-> search.first])
    /\ calls' = calls + 1
    /\ inflight' = inflight \ {search}
    /\ page' = SearchSucceeded(page, data)
    /\ last' = NoLast
    /\ UNCHANGED <<chats, currentChatId, storage, rendering, now, nextChatId, nextMsgId, variant, req>>

\* the fetch answered ok with a response that has the answer
FetchOk(search, answer) == FetchData(search, [query |-> search.query, answer |-> answer])

\* handleSearch when the fetch fails or answers not ok: the catch branch
FetchFail(search) ==
    /\ Idle
    /\ search \in inflight
    /\ inflight' = inflight \ {search}
    /\ page' = SearchFailed(page, search.query)
    /\ last' = NoLast
    /\ UNCHANGED <<chats, currentChatId, storage, queue, rendering, now, nextChatId,
                   nextMsgId, calls, variant, req>>

\* handleNewChat: createNewChat(), and the search state is reset
HandleNewChat ==
    /\ CanCall
    /\ nextChatId < MaxChats
    /\ queue' = Append(queue, createNewChat(NoHint))
    /\ nextChatId' = nextChatId + 1
    /\ rendering' = TRUE
    /\ page' = ResetSearch(page)
    /\ last' = NoLast
    /\ UNCHANGED <<chats, currentChatId, storage, inflight, now, nextMsgId,
                   calls, variant, req>>

\* switchToChat(chatId); the caller leaves the page's state as nextPage
SwitchTo(chatId, nextPage) ==
    /\ CanCall
    /\ queue' = Append(queue, [op |-> "switch", id |-> chatId])
    /\ rendering' = TRUE
    /\ page' = nextPage
    /\ last' = NoLast
    /\ UNCHANGED <<chats, currentChatId, storage, inflight, now, nextChatId,
                   nextMsgId, calls, variant, req>>

\* switchToChat(chatId), called on the hook
SwitchToChat(chatId) == SwitchTo(chatId, page)

\* handleSwitchToChat(chatId), from the sidebar's list of the rendered chats:
\* switchToChat(chatId), and the search state is reset
HandleSwitchToChat(chatId) ==
    /\ chatId \in ChatIds(chats)
    /\ SwitchTo(chatId, ResetSearch(page))

\* deleteChat(chatId), from the sidebar's list of the rendered chats
DeleteChat(chatId) ==
    /\ CanCall
    /\ chatId \in ChatIds(chats)
    /\ queue' = Append(queue, [op |-> "delete", id |-> chatId])
    /\ rendering' = TRUE
    /\ last' = NoLast
    /\ UNCHANGED <<chats, currentChatId, storage, inflight, now, nextChatId,
                   nextMsgId, calls, variant, req, page>>

\* clearAllChats(): the sidebar offers it when the rendered list is not empty
ClearAllChats ==
    /\ CanCall
    /\ Len(chats) > 0
    /\ queue' = Append(queue, [op |-> "clear"])
    /\ storage' = IF storage = Broken THEN storage ELSE NoItem
    /\ rendering' = TRUE
    /\ last' = IF storage = Broken THEN Threw("clearAllChats") ELSE NoLast
    /\ UNCHANGED <<chats, currentChatId, inflight, now, nextChatId,
                   nextMsgId, calls, variant, req, page>>

\* a render applies the next queued update; it goes on until the queue is empty
RenderUpdate(u, next) ==
    /\ chats' = next.chats
    /\ currentChatId' = next.currentChatId
    /\ storage' = next.storage
    /\ nextMsgId' = IF u.op = "add" THEN nextMsgId + 1 ELSE nextMsgId
    /\ nextChatId' = IF u.op = "add" /\ NeedsNewChat(State)
                     THEN nextChatId + 1 ELSE nextChatId
    /\ last' = [op |-> u.op, update |-> u, chats |-> chats,
                currentChatId |-> currentChatId]
    /\ queue' = Tail(queue)
    /\ rendering' = (Tail(queue) # <<>>)
    /\ UNCHANGED <<inflight, now, calls, variant, req, page>>

Render == queue # <<>> /\ RenderUpdate(Head(queue), ApplyUpdate(State, Head(queue)))

\* time passes
Tick ==
    /\ now < ClockStart + MaxTicks
    /\ now' = now + 1
    /\ last' = NoLast
    /\ UNCHANGED <<chats, currentChatId, storage, queue, rendering, inflight,
                   nextChatId, nextMsgId, calls, variant, req, page>>

\* the page is loaded again: fresh state, and the mount effect reads the slot
Reload ==
    /\ ~rendering
    /\ chats' = <<>>
    /\ currentChatId' = Null
    /\ queue' = MountEffect(storage)
    /\ inflight' = {}
    /\ last' = MountLast(storage)
    /\ page' = InitialPage
    /\ UNCHANGED <<storage, rendering, now, nextChatId, nextMsgId, calls, variant, req>>

\* what last records of a click on Try Again: the query whose failure was shown
\* and the query that was submitted ("" when none was)
Retried(query) == [op |-> "retry", failed |-> page.failed, submitted |-> query]

\* handleRetry, from the Try Again button of the error state
HandleRetry ==
    /\ Idle
    /\ page.error # NoError
    /\ IF page.results # NoResults
       THEN Submit(page.results.query, Retried(page.results.query))
       ELSE IF page.currentQuery # ""
       THEN Submit(page.currentQuery, Retried(page.currentQuery))
       ELSE /\ last' = Retried("")
            /\ UNCHANGED <<chats, currentChatId, storage, queue, rendering, inflight,
                           now, nextChatId, nextMsgId, calls, variant, req, page>>

\* the Dismiss button of the error state
Dismiss ==
    /\ Idle
    /\ page.error # NoError
    /\ page' = [page EXCEPT !.error = NoError, !.failed = ""]
    /\ last' = NoLast
    /\ UNCHANGED <<chats, currentChatId, storage, queue, rendering, inflight,
                   now, nextChatId, nextMsgId, calls, variant, req>>

Next ==
    \/ \E q \in Queries : HandleSearch(q)
    \/ \E s \in inflight : FetchOk(s, AnswerTo(s.query))
    \/ \E s \in inflight : FetchFail(s)
    \/ HandleNewChat
    \/ \E id \in ChatIds(chats) : HandleSwitchToChat(id)
    \/ \E id \in ChatIds(chats) : DeleteChat(id)
    \/ ClearAllChats
    \/ Render
    \/ Tick
    \/ Reload
    \/ HandleRetry
    \/ Dismiss

\* the page: the hook driven by the handlers of HomePage and ChatSidebar
Spec == Init /\ [][Next]_vars

\* the hook under any caller: switchToChat takes every id ever generated, that
\* of a chat that is no longer in the list included
NextHook ==
    \/ \E q \in Queries : HandleSearch(q)
    \/ \E s \in inflight : FetchOk(s, AnswerTo(s.query))
    \/ HandleNewChat
    \/ \E id \in 1..nextChatId : SwitchToChat(id)
    \/ \E id \in ChatIds(chats) : DeleteChat(id)
    \/ ClearAllChats
    \/ Render

SpecHook == Init /\ [][NextHook]_vars

----------------------------------------------------------------------------
(* The store started on a slot that something else than saveChats wrote.   *)

\* the id of a chat found in the slot at startup: none the store generates
StoredChatId == MaxChats + MaxCalls + 1

\* a stored chat object without a message list
ChatWithoutMessages ==
    [id |-> StoredChatId, title |-> "saved",
     createdAt |-> toISOString(ClockStart), updatedAt |-> toISOString(ClockStart)]

\* a stored chat object with a message list and without its dates
ChatWithoutDates == [id |-> StoredChatId, title |-> "saved", messages |-> <<>>]

\* malformed contents of the slot
MalformedSlots ==
    {Unparseable, NotAList,
     [kind |-> "text", json |-> <<ChatWithoutMessages>>],
     [kind |-> "text", json |-> <<ChatWithoutDates>>]}

\* the state after construction, the slot holding malformed data
InitLoad ==
    /\ storage \in MalformedSlots
    /\ chats = <<>>
    /\ currentChatId = Null
    /\ queue = MountEffect(storage)
    /\ rendering = FALSE
    /\ inflight = {}
    /\ now = ClockStart
    /\ nextChatId = 0
    /\ nextMsgId = 0
    /\ calls = 0
    /\ variant \in {1, 2}
    /\ last = NoLast
    /\ req = NoRequest
    /\ page = InitialPage

NextLoad ==
    \/ Render
    \/ \E q \in Queries : HandleSearch(q)
    \/ \E s \in inflight : FetchOk(s, AnswerTo(s.query))
    \/ HandleNewChat
    \/ \E id \in ChatIds(chats) : HandleSwitchToChat(id)
    \/ \E id \in ChatIds(chats) : DeleteChat(id)
    \/ ClearAllChats

SpecLoad == InitLoad /\ [][NextLoad]_vars

----------------------------------------------------------------------------
(* The store with a storage collaborator that starts to fail.              *)

\* from now on every access to localStorage throws
StorageBreaks ==
    /\ Idle
    /\ storage # Broken
    /\ storage' = Broken
    /\ last' = NoLast
    /\ UNCHANGED <<chats, currentChatId, queue, rendering, inflight, now, nextChatId,
                   nextMsgId, calls, variant, req, page>>

NextFail ==
    \/ StorageBreaks
    \/ Render
    \/ \E q \in Queries : HandleSearch(q)
    \/ \E s \in inflight : FetchOk(s, AnswerTo(s.query))
    \/ HandleNewChat
    \/ \E id \in ChatIds(chats) : DeleteChat(id)
    \/ ClearAllChats
    \/ Reload

SpecFail == Init /\ [][NextFail]_vars

----------------------------------------------------------------------------
(* Long queries: the page takes any text the user types, so a chat's title *)
(* is made from queries of any length.                                     *)

\* queries of more than 50 characters: one whose key words make a title of 57
\* characters, one whose key words make a candidate of 62
LongQueries ==
    {"what are internationalization considerations multilingual",
     "internationalization internationalization internationalization"}

NextTitle ==
    \/ \E q \in Queries \cup LongQueries : HandleSearch(q)
    \/ \E s \in inflight : FetchOk(s, AnswerTo(s.query))
    \/ HandleNewChat
    \/ Render

SpecTitle == Init /\ [][NextTitle]_vars

----------------------------------------------------------------------------
(* The store under creations, appends and switches only, as time passes.   *)

NextOrder ==
    \/ \E q \in Queries : HandleSearch(q)
    \/ \E s \in inflight : FetchOk(s, AnswerTo(s.query))
    \/ HandleNewChat
    \/ \E id \in ChatIds(chats) : HandleSwitchToChat(id)
    \/ Render
    \/ Tick

SpecOrder == Init /\ [][NextOrder]_vars

----------------------------------------------------------------------------
(* The page under searches that fail: more queries than the search history *)
(* keeps.                                                                  *)

PageQueries == {"q1", "q2", "q3", "q4", "q5", "q6"}

NextPage ==
    \/ \E q \in PageQueries : HandleSearch(q)
    \/ \E s \in inflight : FetchFail(s)
    \/ Render
    \/ HandleRetry
    \/ Dismiss

SpecPage == Init /\ [][NextPage]_vars

----------------------------------------------------------------------------
(* The title heuristic on the responses a server may send: addMessageToChat *)
(* takes the parsed body of any ok response as it is.                       *)

HeuristicQueries ==
    {"What is quantum computing?",
     "what are internationalization considerations multilingual", "go"}

\* bodies of an ok response to the query: an answer with a proper noun of two
\* words, one without a proper noun, no answer, an answer that is a number
Responses(query) ==
    {[query |-> query, answer |-> "Quantum Computing uses qubits"],
     [query |-> query, answer |-> "it depends"],
     [query |-> query],
     [query |-> query, nonText |-> [t |-> "number", v |-> 5]]}

NextHeuristic ==
    \/ \E q \in HeuristicQueries : HandleSearch(q)
    \/ \E s \in inflight : \E data \in Responses(s.query) : FetchData(s, data)
    \/ HandleNewChat
    \/ Render

SpecHeuristic == Init /\ [][NextHeuristic]_vars

----------------------------------------------------------------------------
(* The search route: POST /api/search (src/unnamed/part_002).  One request *)
(* is followed from its body to its response.  The handler runs up to its  *)
(* next await in one step; the retrieval (tavilyClient.search) and the     *)
(* generation (openai.chat.completions.create) answer or throw in between. *)

MaxSources == 2

\* JSON values of a body's query
Absent == [t |-> "absent"]
JNull == [t |-> "null"]
JNumber(n) == [t |-> "number", v |-> n]
JString(str) == [t |-> "string", v |-> str]
JList == [t |-> "list"]

QueryValues ==
    {Absent, JNull, JNumber(0), JNumber(5), JList, JString(""), JString("  "),
     JString(" \t"), JString("go"), JString(" what is tla ")}

\* values of a body's conversationContext: none, a list of messages, a list
\* with a message that has no answer
ContextValues ==
    {Absent,
     [t |-> "list", items |-> <<[query |-> "go", answer |-> "it depends"]>>],
     [t |-> "list", items |-> <<[query |-> "go"]>>]}

\* request bodies: a text that is no JSON, the JSON null, JSON objects
Bodies ==
    {[t |-> "invalid"], [t |-> "null"]}
        \cup {[t |-> "object", query |-> q, conversationContext |-> c] :
                 q \in QueryValues, c \in ContextValues}

\* the i-th result of the retrieval
Source(i) ==
    [title |-> "Source " \o Digit(i), url |-> "https://s" \o Digit(i),
     content |-> "text " \o Digit(i)]

\* what the retrieval returns: up to MaxSources results, or an object without
\* a results list
RetrievalResults ==
    {[t |-> "results", results |-> [i \in 1..n |-> Source(i)]] : n \in 0..MaxSources}
        \cup {[t |-> "malformed"]}

\* the answers the generation writes
Answers ==
    {"A[1] and B[3]", "x[2][1][2]", "[0][3][01]", "none", "[12][2", "[[2]]1]"}

\* what the generation returns: a completion with a content, with an empty or
\* null content, without choices, or an object without a choices list
Completions ==
    {[t |-> "completion", choices |-> <<[content |-> JString(a)]>>] : a \in Answers}
        \cup {[t |-> "completion", choices |-> <<[content |-> JString("")]>>],
              [t |-> "completion", choices |-> <<[content |-> JNull]>>],
              [t |-> "completion", choices |-> <<>>],
              [t |-> "malformed"]}

\* how a call to a collaborator fails: what went wrong, and the code of the
\* error it throws
Failures ==
    {[kind |-> "quota", code |-> "insufficient_quota"],
     [kind |-> "credentials", code |-> "invalid_api_key"],
     [kind |-> "network", code |-> "ENOTFOUND"],
     [kind |-> "network", code |-> "ETIMEDOUT"],
     [kind |-> "network", code |-> "ECONNRESET"],
     [kind |-> "other", code |-> "none"]}

\* a SyntaxError or TypeError thrown by the handler's own code: no code
PlainError == [code |-> "none"]

\* no response yet
NoResult == [kind |-> "none"]

\* the request as the handler receives it; retrievals, generations, retrieved,
\* failed and cause are history
NewRequest(body, keys) ==
    [pc |-> "received", body |-> body, keys |-> keys, retrievals |-> 0,
     generations |-> 0, retrieved |-> FALSE, sources |-> <<>>, result |-> NoResult,
     failed |-> "none", cause |-> "none"]

\* NextResponse.json({ error }, { status })
ErrorResponse(status, message) ==
    [kind |-> "error", status |-> status, body |-> [error |-> message]]

\* the catch block: the status chosen from error.code
CatchResponse(error) ==
    IF error.code = "insufficient_quota"
    THEN ErrorResponse(429, "API quota exceeded. Please try again later.")
    ELSE IF error.code = "invalid_api_key"
    THEN ErrorResponse(401, "Invalid API configuration")
    ELSE IF error.code = "ENOTFOUND" \/ error.code = "ETIMEDOUT"
    THEN ErrorResponse(503, "Network error. Please check your connection and try again.")
    ELSE ErrorResponse(500, "An error occurred while processing your request. Please try again.")

\* the handler returns
Finish(r, result, failed, cause) ==
    [r EXCEPT !.pc = "done", !.result = result, !.failed = failed, !.cause = cause]

\* the handler's try block throws
Catch(r, error, failed, cause) == Finish(r, CatchResponse(error), failed, cause)

\* white space String.prototype.trim removes (those of the model's texts)
IsTrimmed(c) == c = " " \/ c = "\t" \/ c = "\n"

RECURSIVE trimStart(_)
trimStart(str) ==
    IF str # "" /\ IsTrimmed(CharAt(str, 1))
    THEN trimStart(SubSeq(str, 2, Len(str))) ELSE str

RECURSIVE trimEnd(_)
trimEnd(str) ==
    IF str # "" /\ IsTrimmed(CharAt(str, Len(str)))
    THEN trimEnd(SubSeq(str, 1, Len(str) - 1)) ELSE str

\* String.prototype.trim
trim(str) == trimEnd(trimStart(str))

\* !query
Falsy(q) ==
    \/ q.t \in {"absent", "null"}
    \/ q.t = "number" /\ q.v = 0
    \/ q.t = "string" /\ q.v = ""

\* fault: a query of white space passes
InvalidQueryUntrimmed(q) == Falsy(q) \/ q.t # "string"

\* !query || typeof query !== 'string' || query.trim().length === 0
InvalidQuery(q) == Falsy(q) \/ q.t # "string" \/ Len(trim(q.v)) = 0

\* [0-9]
IsDigit(c) == InChars(c, "0123456789")

\* the end of the longest run of digits that starts at i (i - 1 when none does)
RECURSIVE DigitRunEnd(_, _)
DigitRunEnd(str, i) ==
    IF i <= Len(str) /\ IsDigit(CharAt(str, i)) THEN DigitRunEnd(str, i + 1) ELSE i - 1

\* parseInt of a text of digits
RECURSIVE parseInt(_)
parseInt(digits) ==
    IF digits = "" THEN 0
    ELSE parseInt(SubSeq(digits, 1, Len(digits) - 1)) * 10
             + DigitVal(CharAt(digits, Len(digits)))

\* /\[(\d+)\]/ at position i, the digits ending at e: the place of the closing
\* bracket, 0 when there is no match at i
CloseAt(str, i, e) ==
    IF e >= i + 1 /\ e < Len(str) /\ CharAt(str, e + 1) = "]" THEN e + 1 ELSE 0

MarkerEnd(str, i) ==
    IF CharAt(str, i) = "[" THEN CloseAt(str, i, DigitRunEnd(str, i + 1)) ELSE 0

\* [...answer.matchAll(citationRegex)].map(match => parseInt(match[1])), from i on
RECURSIVE matchAll(_, _)
MarkerOr(str, i, close) ==
    IF close > 0
    THEN <<parseInt(SubSeq(str, i + 1, close - 1))>> \o matchAll(str, close + 1)
    ELSE matchAll(str, i + 1)

matchAll(str, i) ==
    IF i > Len(str) THEN <<>> ELSE MarkerOr(str, i, MarkerEnd(str, i))

\* arr.indexOf(num): the first place of num in arr
indexOf(arr, num) ==
    CHOOSE i \in DOMAIN arr : arr[i] = num /\ \A j \in 1..(i - 1) : arr[j] # num

\* arr.lastIndexOf(num)
lastIndexOf(arr, num) ==
    CHOOSE i \in DOMAIN arr : arr[i] = num /\ \A j \in (i + 1)..Len(arr) : arr[j] # num

\* fault: the last occurrence of a number is kept instead of the first
KeepsLast(arr, i) == lastIndexOf(arr, arr[i]) = i

\* fault: duplicates are not removed
KeepsAll(arr, i) == i \in DOMAIN arr

\* (num, index, arr) => arr.indexOf(num) === index
KeepsFirst(arr, i) == indexOf(arr, arr[i]) = i

\* .filter((num, index, arr) => arr.indexOf(num) === index), from place i on
RECURSIVE RemoveDuplicates(_, _)
RemoveDuplicates(arr, i) ==
    IF i > Len(arr) THEN <<>>
    ELSE (IF KeepsFirst(arr, i) THEN <<arr[i]>> ELSE <<>>)
             \o RemoveDuplicates(arr, i + 1)

\* num => num > 0 && num <= sources.length
ValidNumber(num, sources) == num > 0 /\ num <= Len(sources)

\* .filter(num => num > 0 && num <= sources.length)
RECURSIVE ValidNumbers(_, _)
ValidNumbers(nums, sources) ==
    IF nums = <<>> THEN <<>>
    ELSE (IF ValidNumber(Head(nums), sources) THEN <<Head(nums)>> ELSE <<>>)
             \o ValidNumbers(Tail(nums), sources)

\* num => ({ index: num, url: sources[num - 1].url, title: sources[num - 1].title })
\* (sources[num - 1] of the zero-based array is the num-th source)
Citation(num, sources) ==
    [index |-> num, url |-> sources[num].url, title |-> sources[num].title]

ToCitations(nums, sources) == [k \in DOMAIN nums |-> Citation(nums[k], sources)]

\* step 3 of POST: the citations of an answer
extractCitations(answer, sources) ==
    ToCitations(ValidNumbers(RemoveDuplicates(matchAll(answer, 1), 1), sources), sources)

FallbackAnswer == "Unable to generate response"

\* fault: an empty content is taken as the answer
ContentAsIs(content) == IF content.t = "string" THEN content.v ELSE ""

\* content || 'Unable to generate response'
ContentOr(content) ==
    IF content.t = "string" /\ content.v # "" THEN content.v ELSE FallbackAnswer

\* completion.choices[0]?.message?.content || 'Unable to generate response'
answerOf(completion) ==
    IF completion.choices = <<>> THEN FallbackAnswer
    ELSE ContentOr(completion.choices[1].content)

\* process.env.OPENAI_API_KEY and process.env.TAVILY_API_KEY: set or not
KeySets == [openai : BOOLEAN, tavily : BOOLEAN]

\* !process.env.OPENAI_API_KEY || !process.env.TAVILY_API_KEY
KeysMissing(keys) == ~keys.openai \/ ~keys.tavily

\* await tavilyClient.search(...): the call is issued
IssueRetrieval(r) == [r EXCEPT !.pc = "retrieving", !.retrievals = @ + 1]

\* the check of the API keys, then step 1
CheckKeys(r) ==
    IF KeysMissing(r.keys)
    THEN Finish(r, ErrorResponse(500, "API keys not configured"), "keys", "configuration")
    ELSE IssueRetrieval(r)

\* the validation of the query
Validate(r) ==
    IF InvalidQuery(r.body.query)
    THEN Finish(r, ErrorResponse(400, "Query is required and must be a non-empty string"),
                "validation", "bad_input")
    ELSE CheckKeys(r)

\* const { query, conversationContext } = await request.json(): a body that
\* is no JSON makes request.json() throw, the body null makes the
\* destructuring throw
AfterParse(r) ==
    IF r.body.t # "object" THEN Catch(r, PlainError, "parse", "bad_input")
    ELSE Validate(r)

\* msg.answer.substring(0, 200) throws for a message without an answer
ContextThrows(c) ==
    c.t = "list" /\ \E k \in DOMAIN c.items : "answer" \notin DOMAIN c.items[k]

\* await openai.chat.completions.create(...): the call is issued
IssueGeneration(r) == [r EXCEPT !.pc = "generating", !.generations = @ + 1]

\* step 2 up to the call of the generation: the prompt is built
BuildPrompt(r) ==
    IF ContextThrows(r.body.conversationContext)
    THEN Catch(r, PlainError, "prompt", "bad_input")
    ELSE IssueGeneration(r)

\* searchResults.results.map(...): the sources of the response
ToSources(results) ==
    [i \in DOMAIN results |->
        [title |-> results[i].title, url |-> results[i].url,
         content |-> results[i].content]]

\* the retrieval has returned
AfterRetrieval(r, searchResults) ==
    IF searchResults.t # "results" THEN Catch(r, PlainError, "postprocessing", "other")
    ELSE BuildPrompt([r EXCEPT !.retrieved = TRUE,
                               !.sources = ToSources(searchResults.results)])

\* fault: a failed retrieval is followed by the generation
RetrievalFailedGoesOn(r, failure) == IssueGeneration(r)

\* the retrieval has thrown: the catch block
RetrievalFailed(r, failure) == Catch(r, failure, "retrieval", failure.kind)

\* the generation has thrown: the catch block
GenerationFailed(r, failure) == Catch(r, failure, "generation", failure.kind)

\* step 4: the response
SearchResponse(query, answer, sources) ==
    [kind |-> "response", status |-> 200,
     body |-> [query |-> trim(query), answer |-> answer, sources |-> sources,
               citations |-> extractCitations(answer, sources)]]

\* the generation has returned
AfterGeneration(r, completion) ==
    IF completion.t # "completion" THEN Catch(r, PlainError, "postprocessing", "other")
    ELSE Finish(r, SearchResponse(r.body.query.v, answerOf(completion), r.sources),
                "none", "none")

\* POST: a request arrives; the handler runs up to its first call
Post(body, keys) ==
    /\ req.pc \in {"idle", "done"}
    /\ req' = AfterParse(NewRequest(body, keys))
    /\ UNCHANGED storeVars

\* tavilyClient.search resolves
RetrievalReturns(searchResults) ==
    /\ req.pc = "retrieving"
    /\ req' = AfterRetrieval(req, searchResults)
    /\ UNCHANGED storeVars

\* tavilyClient.search rejects
RetrievalFails(failure) ==
    /\ req.pc = "retrieving"
    /\ req' = RetrievalFailed(req, failure)
    /\ UNCHANGED storeVars

\* openai.chat.completions.create resolves
GenerationReturns(completion) ==
    /\ req.pc = "generating"
    /\ req' = AfterGeneration(req, completion)
    /\ UNCHANGED storeVars

\* openai.chat.completions.create rejects
GenerationFails(failure) ==
    /\ req.pc = "generating"
    /\ req' = GenerationFailed(req, failure)
    /\ UNCHANGED storeVars

NextRoute ==
    \/ \E body \in Bodies, keys \in KeySets : Post(body, keys)
    \/ \E searchResults \in RetrievalResults : RetrievalReturns(searchResults)
    \/ \E failure \in Failures : RetrievalFails(failure)
    \/ \E completion \in Completions : GenerationReturns(completion)
    \/ \E failure \in Failures : GenerationFails(failure)

SpecRoute == Init /\ [][NextRoute]_vars

----------------------------------------------------------------------------
(* Properties.  `last` holds the update the previous step applied and the  *)
(* chats and pointer it was applied to.                                    *)

\* the chat of cs with the given id
ChatOf(cs, id) == cs[CHOOSE i \in DOMAIN cs : cs[i].id = id]

\* the collection a load from the durable slot yields; an erased slot yields
\* the empty collection
Loaded(saved) ==
    IF saved = NoItem THEN <<>>
    ELSE IF LoadThrows(saved) THEN <<>>
    ELSE parseChats(saved)

LastMessage(chat) == chat.messages[Len(chat.messages)]

\* the pointer of the state the last update was applied to was null or stale
PointerWasMissing ==
    last.currentChatId = Null \/ last.currentChatId \notin ChatIds(last.chats)

\* C1: after addMessageToChat(query, response) is applied, whatever the pointer
\* was (null, an existing chat, an id no longer in chats), currentChatId is the
\* id of a chat of chats whose last message is the (query, response) just added;
\* when the pointer was null or stale exactly one new chat was put at the head
\* of chats to hold it, otherwise no chat was created and the pointer is unchanged.
C1_AddRepairsPointer ==
    last.op = "add" =>
        /\ currentChatId # Null
        /\ currentChatId \in ChatIds(chats)
        /\ Len(ChatOf(chats, currentChatId).messages) > 0
        /\ LastMessage(ChatOf(chats, currentChatId)).query = last.update.query
        /\ LastMessage(ChatOf(chats, currentChatId)).response = last.update.response
        /\ IF PointerWasMissing
           THEN /\ Len(chats) = Len(last.chats) + 1
                /\ chats[1].id = currentChatId
                /\ currentChatId \notin ChatIds(last.chats)
                /\ chats[1].messages = <<LastMessage(chats[1])>>
                /\ Tail(chats) = last.chats
           ELSE /\ currentChatId = last.currentChatId
                /\ [i \in DOMAIN chats |-> chats[i].id]
                       = [i \in DOMAIN last.chats |-> last.chats[i].id]

\* C1's case: the message was added while the pointer held the id of a chat
\* that was no longer in the (non-empty) list
C1_Witness ==
    /\ last.op = "add"
    /\ last.currentChatId # Null
    /\ last.chats # <<>>
    /\ last.currentChatId \notin ChatIds(last.chats)
    /\ Len(chats) = Len(last.chats) + 1

\* C2: deleteChat(chatId) removes exactly the chat with that id; the pointer
\* becomes the first remaining chat (null when none remains) when the deleted
\* chat was the current one, and is unchanged otherwise.
C2_DeleteChat ==
    last.op = "delete" =>
        /\ last.update.id \notin ChatIds(chats)
        /\ LET Keep(c) == c.id # last.update.id
           IN  chats = SelectSeq(last.chats, Keep)
        /\ Len(chats) = Len(last.chats) - 1
        /\ currentChatId =
              IF last.currentChatId = last.update.id
              THEN (IF chats = <<>> THEN Null ELSE chats[1].id)
              ELSE last.currentChatId

\* C2's case: the current chat was deleted and another chat remains
C2_Witness ==
    /\ last.op = "delete"
    /\ last.currentChatId = last.update.id
    /\ chats # <<>>
    /\ currentChatId = chats[1].id

\* C3: createNewChat, with or without a hint, adds exactly one chat without
\* messages at the head of chats, makes it the current chat, writes the new
\* collection to the durable slot and returns the id of that chat.
C3_CreateNewChat ==
    last.op = "create" =>
        /\ Len(chats) = Len(last.chats) + 1
        /\ Tail(chats) = last.chats
        /\ chats[1].messages = <<>>
        /\ chats[1].id \notin ChatIds(last.chats)
        /\ chats[1].id = last.update.returned
        /\ currentChatId = last.update.returned
        /\ storage # NoItem
        /\ Loaded(storage) = chats

\* C3's case: a chat was created with a hint in front of an existing chat
C3_Witness ==
    /\ last.op = "create"
    /\ last.chats # <<>>
    /\ last.update.chat.title # "New Chat"
    /\ chats[1].id = last.update.returned

\* C4: once clearAllChats has taken effect, whatever updates of other store
\* operations were still queued when it was called, a load from the durable
\* slot yields the empty collection.
C4_ClearThenLoadIsEmpty ==
    last.op = "clear" => Loaded(storage) = <<>>

\* C5: after every applied operation that changes chats (createNewChat,
\* addMessageToChat, deleteChat, clearAllChats) the durable slot holds a
\* snapshot equal to the chats in memory, an erased slot counting as empty.
C5_StorageEqualsMemory ==
    last.op \in {"create", "add", "delete", "clear"} => Loaded(storage) = chats

\* the title each chat the update was applied to has afterwards is the one it had
TitlesKept ==
    \A i \in DOMAIN last.chats :
        last.chats[i].id \in ChatIds(chats) =>
            ChatOf(chats, last.chats[i].id).title = last.chats[i].title

\* C6: when the chat a first message was submitted for has been deleted before
\* the message (and with it the title rewrite) is applied, the rewrite is a
\* no-op: the deleted chat is not in chats again and no other chat's title
\* changes.
C6_RewriteAfterDeleteIsNoOp ==
    (/\ last.op = "add"
     /\ last.update.first
     /\ last.update.target \notin ChatIds(last.chats))
        => /\ last.update.target \notin ChatIds(chats)
           /\ TitlesKept

\* the title derived from the chat's own first query
OwnTitle(chat) == MessageTitle(chat.messages[1].query, chat.messages[1].response)

\* C7: the title produced for a chat's first message is written to that chat
\* only, selected by id: every chat with messages has the title derived from
\* its own first query, and an append changes no other chat (title, messages,
\* updatedAt), wherever the chats are in the list.
C7_TitlesNotCrossed ==
    /\ \A i \in DOMAIN chats :
           Len(chats[i].messages) > 0 => chats[i].title = OwnTitle(chats[i])
    /\ last.op = "add" =>
           \A i \in DOMAIN last.chats :
               last.chats[i].id # currentChatId =>
                   /\ last.chats[i].id \in ChatIds(chats)
                   /\ ChatOf(chats, last.chats[i].id) = last.chats[i]

\* C7's case: two chats with different first queries; the older chat, second in
\* the list, has just received its first message, after the newer one got its own
C7_Witness ==
    /\ last.op = "add"
    /\ Len(chats) = 2
    /\ currentChatId = chats[2].id
    /\ Len(chats[1].messages) = 1
    /\ Len(chats[2].messages) = 1
    /\ chats[1].messages[1].call < chats[2].messages[1].call
    /\ chats[1].messages[1].query # chats[2].messages[1].query
    /\ chats[1].title # chats[2].title

\* C8: the messages of every chat are sorted non-decreasing by timestamp.
C8_MessagesSortedByTimestamp ==
    \A c \in DOMAIN chats :
        \A i, j \in DOMAIN chats[c].messages :
            i < j => chats[c].messages[i].timestamp <= chats[c].messages[j].timestamp

\* C8's case: a chat holds two messages added at different instants
C8_Witness ==
    \E c \in DOMAIN chats :
        /\ Len(chats[c].messages) = 2
        /\ chats[c].messages[1].timestamp < chats[c].messages[2].timestamp

\* the messages of the chat with the given id in cs, none when there is no such chat
MessagesOf(cs, id) == IF id \in ChatIds(cs) THEN ChatOf(cs, id).messages ELSE <<>>

\* C9: message lists are append-only and in call order: an addMessageToChat
\* adds one message, the call's (query, response), at the end of the current
\* chat and changes no message of any chat; no other operation changes the
\* messages of a chat it keeps; within a chat the messages are in the order
\* the addMessageToChat calls were made.
C9_AppendOnlyInCallOrder ==
    /\ last.op = "add" =>
           /\ \A i \in DOMAIN last.chats :
                  /\ last.chats[i].id \in ChatIds(chats)
                  /\ last.chats[i].id # currentChatId =>
                         MessagesOf(chats, last.chats[i].id) = last.chats[i].messages
           /\ Len(MessagesOf(chats, currentChatId))
                  = Len(MessagesOf(last.chats, currentChatId)) + 1
           /\ SubSeq(MessagesOf(chats, currentChatId), 1,
                     Len(MessagesOf(last.chats, currentChatId)))
                  = MessagesOf(last.chats, currentChatId)
           /\ LastMessage(ChatOf(chats, currentChatId)).query = last.update.query
           /\ LastMessage(ChatOf(chats, currentChatId)).response = last.update.response
           /\ LastMessage(ChatOf(chats, currentChatId)).call = last.update.call
    /\ last.op \in {"create", "switch", "delete"} =>
           \A i \in DOMAIN chats :
               chats[i].messages = MessagesOf(last.chats, chats[i].id)
    /\ \A c \in DOMAIN chats :
           \A i, j \in DOMAIN chats[c].messages :
               i < j => chats[c].messages[i].call < chats[c].messages[j].call

\* C9's case: a second message, of another query, was appended to a chat that
\* held one
C9_Witness ==
    /\ last.op = "add"
    /\ Len(MessagesOf(chats, currentChatId)) = 2
    /\ MessagesOf(chats, currentChatId)[1].query = "go"
    /\ MessagesOf(chats, currentChatId)[2].query = "what is tla"

\* C10: saving a collection and loading it gives the same chats in the same
\* order, with the same ids, titles, instants and messages.
C10_SaveLoadRoundTrip ==
    /\ Loaded(saveChats(chats)) = chats
    /\ last.op = "load" => chats = Loaded(storage)

\* C10's case: a load has put back a saved chat whose message was added at
\* another instant than the chat was created
C10_Witness ==
    /\ last.op = "load"
    /\ chats # <<>>
    /\ Len(chats[1].messages) > 0
    /\ chats[1].createdAt # chats[1].messages[1].timestamp
    /\ chats = Loaded(storage)

\* the fields of a stored chat
ChatFields == {"id", "title", "messages", "createdAt", "updatedAt"}

\* the slot holds something else than the text of a list of chats
Malformed(saved) ==
    /\ saved # NoItem
    /\ \/ saved.kind # "text"
       \/ \E i \in DOMAIN saved.json : DOMAIN saved.json[i] # ChatFields

\* C11: when the slot holds malformed data at startup (not parseable, not a
\* list of chats, a chat without a message list) the load leaves the store
\* with an empty chat collection and no current chat: no load of malformed
\* data is ever applied, and what a load applies is never a non-empty
\* collection read from a malformed slot.
C11_MalformedLoadsEmpty ==
    (last.op = "load" /\ Malformed(storage)) =>
        (chats = <<>> /\ currentChatId = Null)

\* C12: a failure of the storage collaborator (read, write or erase) during a
\* store operation is absorbed: no exception leaves the operation, and the
\* in-memory transition of the operation still completes.
C12_StorageFailureAbsorbed ==
    /\ last.op # "threw"
    /\ (storage = Broken /\ last.op = "create") =>
           (chats = <<last.update.chat>> \o last.chats
            /\ currentChatId = last.update.returned)
    /\ (storage = Broken /\ last.op = "add") =>
           (currentChatId \in ChatIds(chats)
            /\ LastMessage(ChatOf(chats, currentChatId)).call = last.update.call)
    /\ (storage = Broken /\ last.op = "delete") => last.update.id \notin ChatIds(chats)
    /\ (storage = Broken /\ last.op = "clear") => (chats = <<>> /\ currentChatId = Null)

\* C13: switchToChat(id), for any id whether or not it is in chats, sets
\* currentChatId to id and leaves chats and the durable slot as they were;
\* getCurrentChat then returns the chat with that id when there is one and
\* null when there is none.
C13_SwitchToChat ==
    [][last'.op = "switch" =>
          /\ currentChatId' = last'.update.id
          /\ chats' = chats
          /\ storage' = storage
          /\ IF last'.update.id \in ChatIds(chats')
             THEN getCurrentChat' \in {chats'[i] : i \in DOMAIN chats'}
                  /\ getCurrentChat'.id = last'.update.id
             ELSE getCurrentChat' = NoChat]_vars

\* C13's case: the pointer was switched to an id that is not in the non-empty
\* list, and the lookup gives null
C13_Witness ==
    /\ last.op = "switch"
    /\ chats # <<>>
    /\ last.update.id \notin ChatIds(chats)
    /\ currentChatId = last.update.id
    /\ getCurrentChat = NoChat

\* a text made of white space only (the empty text included)
OnlyWhiteSpace(str) == \A i \in 1..Len(str) : CharAt(str, i) \in {" ", "\t", "\n"}

\* the query of a body is missing, not a string, empty or white space only
QueryUnusable(q) == q.t # "string" \/ OnlyWhiteSpace(q.v)

\* C14: a request whose query is missing, not a string, empty or
\* whitespace-only is rejected with status 400, and neither the retrieval nor
\* the generation is called for it.
C14_InvalidQueryRejected ==
    (req.pc # "idle" /\ req.body.t = "object" /\ QueryUnusable(req.body.query)) =>
        /\ req.pc = "done"
        /\ req.result.kind = "error"
        /\ req.result.status = 400
        /\ req.retrievals = 0
        /\ req.generations = 0

\* C14's case: a query of a space and a tab, with both keys set, was rejected
C14_Witness ==
    /\ req.pc = "done"
    /\ req.body.t = "object"
    /\ req.body.query = JString(" \t")
    /\ ~KeysMissing(req.keys)
    /\ req.result.status = 400
    /\ req.retrievals = 0

\* the number a text of decimal digits denotes, read from the left
RECURSIVE Decimal(_, _)
Decimal(digits, acc) ==
    IF digits = "" THEN acc
    ELSE Decimal(SubSeq(digits, 2, Len(digits)), acc * 10 + DigitVal(CharAt(digits, 1)))

\* the text from i to j is a marker: "[", one or more digits, "]"
IsMarker(str, i, j) ==
    /\ j > i + 1
    /\ CharAt(str, i) = "["
    /\ CharAt(str, j) = "]"
    /\ \A k \in (i + 1)..(j - 1) : CharAt(str, k) \in {Digit(d) : d \in 0..9}

\* the places where a marker of the number n starts
MarkerPlaces(str, n) ==
    {i \in 1..Len(str) :
        \E j \in i..Len(str) :
            IsMarker(str, i, j) /\ Decimal(SubSeq(str, i + 1, j - 1), 0) = n}

FirstPlace(str, n) ==
    CHOOSE i \in MarkerPlaces(str, n) : \A j \in MarkerPlaces(str, n) : i <= j

\* C15: the citations of an answer are exactly one citation per distinct
\* marker [n] with 1 <= n <= len(sources), in the order in which the numbers
\* first appear in the answer, each with the url and title of the n-th source;
\* markers that are zero or above len(sources) are dropped without error (for
\* "A[1] and B[3]" with 2 sources: the single citation with index 1 and the
\* data of the first source).
C15_CitationExtractor ==
    (req.pc = "done" /\ req.result.kind = "response") =>
        LET answer == req.result.body.answer
            sources == req.result.body.sources
            citations == req.result.body.citations
        IN  /\ \A n \in 1..Len(sources) :
                   Cardinality({k \in DOMAIN citations : citations[k].index = n})
                       = IF MarkerPlaces(answer, n) # {} THEN 1 ELSE 0
            /\ \A k \in DOMAIN citations :
                   /\ citations[k].index \in 1..Len(sources)
                   /\ citations[k] = [index |-> citations[k].index,
                                      url |-> sources[citations[k].index].url,
                                      title |-> sources[citations[k].index].title]
            /\ \A k, l \in DOMAIN citations :
                   k < l => FirstPlace(answer, citations[k].index)
                                < FirstPlace(answer, citations[l].index)
            /\ (answer = "A[1] and B[3]" /\ Len(sources) = 2) =>
                   citations = <<[index |-> 1, url |-> sources[1].url,
                                  title |-> sources[1].title]>>

\* C15's case: a response to the answer with the markers [2], [1], [2] over two
\* sources cites the second source, then the first
C15_Witness ==
    /\ req.pc = "done"
    /\ req.result.kind = "response"
    /\ req.result.body.answer = "x[2][1][2]"
    /\ Len(req.result.body.sources) = 2
    /\ Len(req.result.body.citations) = 2
    /\ req.result.body.citations[1].index = 2
    /\ req.result.body.citations[2].url = Source(1).url

\* C16: in every response the citation indexes are pairwise distinct and each
\* lies between 1 and the number of sources of that response.
C16_CitationIndexes ==
    (req.pc = "done" /\ req.result.kind = "response") =>
        /\ \A k, l \in DOMAIN req.result.body.citations :
               k # l => req.result.body.citations[k].index
                            # req.result.body.citations[l].index
        /\ \A k \in DOMAIN req.result.body.citations :
               /\ 1 <= req.result.body.citations[k].index
               /\ req.result.body.citations[k].index <= Len(req.result.body.sources)

\* C16's case: a response to the answer with the markers [2], [1], [2] over one
\* source cites that source once
C16_Witness ==
    /\ req.pc = "done"
    /\ req.result.kind = "response"
    /\ req.result.body.answer = "x[2][1][2]"
    /\ Len(req.result.body.sources) = 1
    /\ Len(req.result.body.citations) = 1
    /\ req.result.body.citations[1].index = 1

ResponseFields == {"query", "answer", "sources", "citations"}

\* a complete response: the four fields, a query and an answer that are not
\* empty, a list of sources and the citations of the answer into it
CompleteResponse(result) ==
    /\ result.kind = "response"
    /\ result.status = 200
    /\ DOMAIN result.body = ResponseFields
    /\ result.body.query # ""
    /\ result.body.answer # ""
    /\ DOMAIN result.body.sources = 1..Len(result.body.sources)
    /\ DOMAIN result.body.citations = 1..Len(result.body.citations)

\* an error: a message, a status of an error, and none of the response's fields
ErrorOnly(result) ==
    /\ result.kind = "error"
    /\ result.status >= 400
    /\ "error" \in DOMAIN result.body
    /\ DOMAIN result.body \cap ResponseFields = {}

\* C17: a request ends in exactly one of a complete response (query, answer,
\* sources and citations all set) and an error without response fields;
\* whatever step fails, the result is the error, and nothing is returned
\* before the request ends.
C17_CompleteOrError ==
    /\ req.pc = "done" =>
           /\ CompleteResponse(req.result) # ErrorOnly(req.result)
           /\ CompleteResponse(req.result) <=> req.failed = "none"
    /\ req.pc \in {"received", "retrieving", "generating"} => req.result = NoResult

\* C17's case: the generation returned a completion without a content, and the
\* response carries the fallback answer
C17_Witness ==
    /\ req.pc = "done"
    /\ req.generations = 1
    /\ req.result.kind = "response"
    /\ req.result.body.answer = FallbackAnswer
    /\ req.result.body.query = "what is tla"

\* C18: within one request the retrieval is called at most once and the
\* generation at most once, the generation only after the retrieval has
\* succeeded, and a failure of either call ends the request with an error,
\* without a further call.
C18_CallsAtMostOnce ==
    req.pc # "idle" =>
        /\ req.retrievals <= 1
        /\ req.generations <= 1
        /\ req.generations = 1 => (req.retrievals = 1 /\ req.retrieved)
        /\ req.pc = "generating" => req.generations = 1
        /\ req.pc = "retrieving" => (req.retrievals = 1 /\ req.generations = 0)
        /\ req.failed = "retrieval" =>
               /\ req.pc = "done"
               /\ req.result.kind = "error"
               /\ req.retrievals = 1
               /\ req.generations = 0
        /\ req.failed = "generation" =>
               /\ req.pc = "done"
               /\ req.result.kind = "error"
               /\ req.retrievals = 1
               /\ req.generations = 1

\* C18's case: the retrieval failed and the request ended with its error,
\* without a generation
C18_Witness ==
    /\ req.pc = "done"
    /\ req.failed = "retrieval"
    /\ req.result.status = 503
    /\ req.retrievals = 1
    /\ req.generations = 0

\* the status the class of a failure calls for
StatusFor(cause) ==
    IF cause = "bad_input" THEN 400
    ELSE IF cause = "quota" THEN 429
    ELSE IF cause = "credentials" THEN 401
    ELSE IF cause = "network" THEN 503
    ELSE 500

\* C19: every error carries the status of its class: bad input 400 and never
\* a 5xx, quota exceeded 429, invalid credentials 401, network or timeout
\* failures 503, any other failure 500.
C19_StatusByCause ==
    (req.pc = "done" /\ req.result.kind = "error") =>
        req.result.status = StatusFor(req.cause)

\* C20: the title of every chat, given at creation with a first query or at the
\* first message, has at most 50 characters.
C20_TitleWithinLimit ==
    \A i \in DOMAIN chats : Len(chats[i].title) <= TitleLimit

\* the titles createNewChat gives: the placeholders of the first version of
\* the hook; in the second version the provisional title cut from the first query
Placeholders ==
    IF variant = 1 THEN {"New Chat", "New Chat..."}
    ELSE {"New Chat"} \cup {SliceTitle(q) : q \in Queries}

\* C21: a chat's title starts as a placeholder and is rewritten exactly once,
\* when the chat's first message is appended; every later addMessageToChat on
\* the chat, and every other operation, leaves the title unchanged.
C21_TitleRewrittenOnce ==
    /\ \A i \in DOMAIN chats :
           Len(chats[i].messages) = 0 => chats[i].title \in Placeholders
    /\ last.op = "add" =>
           \A i \in DOMAIN last.chats :
               /\ last.chats[i].id \in ChatIds(chats)
               /\ IF last.chats[i].id = currentChatId /\ Len(last.chats[i].messages) = 0
                  THEN ChatOf(chats, currentChatId).title
                           = MessageTitle(last.update.query, last.update.response)
                  ELSE ChatOf(chats, last.chats[i].id).title = last.chats[i].title
    /\ last.op \in {"create", "switch", "delete"} => TitlesKept

\* C21's case: a chat that held one message has just received a second one, of
\* another query, and kept the title of the first
C21_Witness ==
    /\ last.op = "add"
    /\ currentChatId \in ChatIds(last.chats)
    /\ Len(ChatOf(last.chats, currentChatId).messages) = 1
    /\ Len(ChatOf(chats, currentChatId).messages) = 2
    /\ ChatOf(chats, currentChatId).messages[1].query
           # ChatOf(chats, currentChatId).messages[2].query
    /\ ChatOf(chats, currentChatId).title = ChatOf(last.chats, currentChatId).title
    /\ ChatOf(chats, currentChatId).title \notin {"New Chat", "New Chat..."}

\* the lowercased query contains the text part
Contains(str, part) ==
    \E i \in 1..(Len(str) - Len(part) + 1) : SubSeq(str, i, i + Len(part) - 1) = part

\* the what-is intent
WhatIsIntent(query) ==
    Contains(toLowerCase(query), "what is") \/ Contains(toLowerCase(query), "what are")

\* C22: for a query of the what-is intent and an answer with a capitalized
\* proper noun of several words, the heuristic title is "What is <noun>?", of
\* at most 50 characters.
C22_WhatIsTemplate ==
    \A i \in DOMAIN chats :
        (/\ variant = 1
         /\ Len(chats[i].messages) > 0
         /\ WhatIsIntent(chats[i].messages[1].query)
         /\ HasTextAnswer(chats[i].messages[1].response)
         /\ Contains(firstProperNoun(chats[i].messages[1].response.answer), " ")) =>
            /\ chats[i].title
                   = truncateQuery("What is "
                         \o firstProperNoun(chats[i].messages[1].response.answer) \o "?")
            /\ Len(chats[i].title) <= TitleLimit

\* C23: the title heuristic never throws; when the response has no answer or
\* one that is not a text, the title is the query itself, or its first 47
\* characters and an ellipsis when the query has more than 50.
C23_FallbackTitle ==
    \A i \in DOMAIN chats :
        (variant = 1 /\ Len(chats[i].messages) > 0) =>
            /\ chats[i].title # ""
            /\ ~HasTextAnswer(chats[i].messages[1].response) =>
                   /\ Len(chats[i].title) <= TitleLimit
                   /\ IF Len(chats[i].messages[1].query) > TitleLimit
                      THEN chats[i].title
                               = SubSeq(chats[i].messages[1].query, 1, 47) \o "..."
                      ELSE chats[i].title = chats[i].messages[1].query

\* C23's case: the first message of a chat has a query of more than 50
\* characters and a response whose answer is a number
C23_Witness ==
    \E i \in DOMAIN chats :
        /\ variant = 1
        /\ Len(chats[i].messages) > 0
        /\ "nonText" \in DOMAIN chats[i].messages[1].response
        /\ Len(chats[i].messages[1].query) > TitleLimit
        /\ Len(chats[i].title) = TitleLimit

\* C24: after a search has failed and the error state is shown, the retry
\* action submits a search with exactly the query that failed.
C24_RetryResubmits ==
    last.op = "retry" =>
        /\ last.failed # ""
        /\ last.submitted = last.failed
        /\ \E s \in inflight : s.query = last.failed

\* C25: after any sequence of createNewChat, addMessageToChat and switchToChat,
\* the first chat of chats is the one with the greatest updatedAt.
C25_NewestFirst ==
    \A i \in DOMAIN chats : chats[1].updatedAt >= chats[i].updatedAt

\* C26: a chat's createdAt never changes after creation, every append sets the
\* chat's updatedAt to the instant of the append, and so in every state
\* createdAt <= updatedAt and updatedAt is not earlier than the timestamp of
\* the chat's last message.
C26_CreatedAndUpdated ==
    /\ \A i \in DOMAIN chats :
           /\ chats[i].createdAt <= chats[i].updatedAt
           /\ Len(chats[i].messages) > 0 =>
                  chats[i].updatedAt >= LastMessage(chats[i]).timestamp
    /\ last.op \in {"create", "add", "switch", "delete"} =>
           \A i \in DOMAIN last.chats :
               last.chats[i].id \in ChatIds(chats) =>
                   ChatOf(chats, last.chats[i].id).createdAt = last.chats[i].createdAt
    /\ last.op = "add" =>
           /\ ChatOf(chats, currentChatId).updatedAt = now
           /\ ChatOf(chats, currentChatId).updatedAt
                  = LastMessage(ChatOf(chats, currentChatId)).timestamp

\* C26's case: a message was appended to a chat created at an earlier instant
C26_Witness ==
    /\ last.op = "add"
    /\ currentChatId \in ChatIds(last.chats)
    /\ ChatOf(last.chats, currentChatId).updatedAt < now
    /\ ChatOf(chats, currentChatId).createdAt < ChatOf(chats, currentChatId).updatedAt
    /\ ChatOf(chats, currentChatId).updatedAt = now

\* C27: in every state reached by createNewChat, addMessageToChat, deleteChat,
\* clearAllChats, the load on mount, and switchToChat called with ids that are
\* in chats when it is called, currentChatId is null or the id of a chat of chats.
C27_PointerNullOrPresent ==
    currentChatId = Null \/ currentChatId \in ChatIds(chats)

\* C27's case: the current chat was deleted while another remained, and the
\* pointer moved to the remaining one
C27_Witness ==
    /\ last.op = "delete"
    /\ last.currentChatId = last.update.id
    /\ Len(last.chats) = 2
    /\ last.chats[2].id = last.update.id
    /\ currentChatId \in ChatIds(chats)

\* C28: the message of a search is appended to the chat that was current when
\* the search was submitted; whatever the user did while the request was in
\* flight, it is not appended to a different chat that existed already.
C28_AppendedToSubmittedChat ==
    last.op = "add" =>
        \/ currentChatId = last.update.target
        \/ currentChatId \notin ChatIds(last.chats)

\* C29: a search that fails appends no message and leaves the chats and the
\* durable slot as they were before it was submitted, without an empty chat
\* left behind; here every search has failed and the store was empty before
\* the first.
C29_FailedSearchLeavesNothing ==
    (inflight = {} /\ queue = <<>>) =>
        /\ chats = <<>>
        /\ Loaded(storage) = <<>>

\* C30: the search history holds at most 5 queries, none twice, the most
\* recently submitted first: a submitted query becomes the first entry, the
\* other entries follow in the order they had, cut to 5 in all, and nothing
\* but a submission changes the history.
C30_SearchHistory ==
    [][/\ Len(page'.searchHistory) <= 5
       /\ \A i, j \in DOMAIN page'.searchHistory :
              i # j => page'.searchHistory[i] # page'.searchHistory[j]
       /\ IF inflight' \ inflight # {}
          THEN LET q == (CHOOSE s \in inflight' \ inflight : TRUE).query
                   Other(h) == h # q
                   others == SelectSeq(page.searchHistory, Other)
               IN  /\ page'.searchHistory[1] = q
                   /\ Len(page'.searchHistory) = 1 + Min(4, Len(others))
                   /\ Tail(page'.searchHistory)
                          = SubSeq(others, 1, Len(page'.searchHistory) - 1)
          ELSE page'.searchHistory = page.searchHistory]_vars

\* C30's case: six different queries were submitted and then the second of
\* them again; the history holds it first and the four submitted before it
C30_Witness ==
    /\ page.searchHistory = <<"q2", "q6", "q5", "q4", "q3">>
    /\ page.currentQuery = "q2"

============================================================================
